---- MODULE Spec2Model ----
(***************************************************************************)
(* A model of old_data/migrate_old_data.py: the OldDataMigrator that reads *)
(* the legacy listings and dates tables of every configured company and    *)
(* posts one job per date entry to the JobPortal API.                      *)
(*                                                                         *)
(* Text is a sequence of character codes (ASCII), a calendar date is the   *)
(* tuple <<year, month, day>>, and Python's None is the empty tuple.       *)
(***************************************************************************)
EXTENDS Integers, Sequences, FiniteSets, TLC

None == << >>

(***************************************************************************)
(* Characters and text.                                                    *)
(***************************************************************************)
IsDigit(c) == c \in 48..57

DigitVal(c) == c - 48

Whitespace == {9, 10, 11, 12, 13, 32}

Min(S) == CHOOSE x \in S : \A y \in S : x <= y

Max(S) == CHOOSE x \in S : \A y \in S : x >= y

\* str.strip(): the text without its leading and trailing whitespace.
Strip(s) ==
    LET keep == {i \in 1..Len(s) : s[i] \notin Whitespace}
    IN IF keep = {} THEN << >> ELSE SubSeq(s, Min(keep), Max(keep))

\* The decimal digits of n in exactly w places (zero padded), n < 10^w.
RECURSIVE Pad(_, _)
Pad(n, w) == IF w = 0 THEN << >> ELSE Append(Pad(n \div 10, w - 1), 48 + (n % 10))

\* str(n) of a non-negative integer.
RECURSIVE StrOfInt(_)
StrOfInt(n) == IF n < 10 THEN <<48 + n>> ELSE Append(StrOfInt(n \div 10), 48 + (n % 10))

\* Comparison of two texts by character code, as ORDER BY compares a text column.
RECURSIVE TextLeq(_, _)
TextLeq(a, b) ==
    IF a = << >> THEN TRUE
    ELSE IF b = << >> THEN FALSE
    ELSE IF a[1] # b[1] THEN a[1] < b[1]
    ELSE TextLeq(Tail(a), Tail(b))

(***************************************************************************)
(* Calendar dates.                                                         *)
(***************************************************************************)
IsLeap(y) == (y % 4 = 0 /\ y % 100 # 0) \/ y % 400 = 0

DaysInMonth(y, m) ==
    IF m \in {4, 6, 9, 11} THEN 30
    ELSE IF m = 2 THEN (IF IsLeap(y) THEN 29 ELSE 28)
    ELSE 31

\* datetime.date(y, m, d) accepts exactly these.
ValidDate(y, m, d) == y \in 1..9999 /\ m \in 1..12 /\ d \in 1..DaysInMonth(y, m)

DateLeq(a, b) ==
    \/ a[1] < b[1]
    \/ a[1] = b[1] /\ a[2] < b[2]
    \/ a[1] = b[1] /\ a[2] = b[2] /\ a[3] <= b[3]

\* date.isoformat(): YYYY-MM-DD.
IsoFormat(d) == Pad(d[1], 4) \o <<45>> \o Pad(d[2], 2) \o <<45>> \o Pad(d[3], 2)

\* datetime.fromisoformat(s).date() for the texts map_job_fields can hand it
\* (an isoformat() result or the str() of a number): the date of a text of the
\* form YYYY-MM-DD, None where Python raises ValueError.
FromIsoFormat(s) ==
    IF /\ Len(s) = 10
       /\ s[5] = 45 /\ s[8] = 45
       /\ \A i \in {1, 2, 3, 4, 6, 7, 9, 10} : IsDigit(s[i])
    THEN LET y == 1000 * DigitVal(s[1]) + 100 * DigitVal(s[2])
                  + 10 * DigitVal(s[3]) + DigitVal(s[4])
             m == 10 * DigitVal(s[6]) + DigitVal(s[7])
             d == 10 * DigitVal(s[9]) + DigitVal(s[10])
         IN IF ValidDate(y, m, d) THEN <<y, m, d>> ELSE None
    ELSE None

(***************************************************************************)
(* datetime.strptime for the directives the six formats use.  A format is  *)
(* a sequence of tokens: a directive (Y, m, d, H, M, S) or a literal       *)
(* character; a blank in the format matches one or more whitespace.        *)
(***************************************************************************)
Dir(x) == [dir |-> x, ch |-> 0]

Lit(c) == [dir |-> "lit", ch |-> c]

\* The values the two-digit and the one-digit form of a directive's pattern
\* accept (%m: 1[0-2]|0[1-9]|[1-9], %d: 3[01]|[12]\d|0[1-9]|[1-9]| [1-9],
\* %H: 2[0-3]|[0-1]\d|\d, %M: [0-5]\d|\d, %S: 6[0-1]|[0-5]\d|\d).
TwoDigitRange(dir) ==
    CASE dir = "m" -> 1..12
      [] dir = "d" -> 1..31
      [] dir = "H" -> 0..23
      [] dir = "M" -> 0..59
      [] dir = "S" -> 0..61

OneDigitRange(dir) == IF dir \in {"m", "d"} THEN 1..9 ELSE 0..9

\* The ways token tok can match s at position i, in the order the regular
\* expression tries them: records [len, val].
Cands(tok, s, i) ==
    LET n == Len(s)
        dir == tok.dir
    IN
    IF dir = "lit" THEN
        IF tok.ch = 32 THEN
            \* \s+ : the longest run of whitespace first
            LET run == {k \in 1..(n - i + 1) :
                          \A j \in i..(i + k - 1) : s[j] \in Whitespace}
            IN [k \in 1..Cardinality(run) |->
                  [len |-> Cardinality(run) + 1 - k, val |-> 0]]
        ELSE IF i <= n /\ s[i] = tok.ch THEN <<[len |-> 1, val |-> 0]>>
        ELSE << >>
    ELSE IF dir = "Y" THEN
        IF i + 3 <= n /\ \A j \in i..(i + 3) : IsDigit(s[j])
        THEN <<[len |-> 4,
                val |-> 1000 * DigitVal(s[i]) + 100 * DigitVal(s[i + 1])
                        + 10 * DigitVal(s[i + 2]) + DigitVal(s[i + 3])]>>
        ELSE << >>
    ELSE
        LET two == IF /\ i + 1 <= n /\ IsDigit(s[i]) /\ IsDigit(s[i + 1])
                      /\ (10 * DigitVal(s[i]) + DigitVal(s[i + 1]))
                            \in TwoDigitRange(dir)
                   THEN <<[len |-> 2,
                           val |-> 10 * DigitVal(s[i]) + DigitVal(s[i + 1])]>>
                   ELSE << >>
            one == IF i <= n /\ IsDigit(s[i]) /\ DigitVal(s[i]) \in OneDigitRange(dir)
                   THEN <<[len |-> 1, val |-> DigitVal(s[i])]>>
                   ELSE << >>
            \* %d also accepts a blank followed by a digit 1-9
            pad == IF /\ dir = "d" /\ i + 1 <= n /\ s[i] = 32
                      /\ IsDigit(s[i + 1]) /\ DigitVal(s[i + 1]) \in 1..9
                   THEN <<[len |-> 2, val |-> DigitVal(s[i + 1])]>>
                   ELSE << >>
        IN two \o one \o pad

\* The fields <<year, month, day, second>> with the one dir names set to v.
SetField(acc, dir, v) ==
    CASE dir = "Y" -> <<v, acc[2], acc[3], acc[4]>>
      [] dir = "m" -> <<acc[1], v, acc[3], acc[4]>>
      [] dir = "d" -> <<acc[1], acc[2], v, acc[4]>>
      [] dir = "S" -> <<acc[1], acc[2], acc[3], v>>
      [] OTHER -> acc

\* Match fmt[k..] against s from position i: <<end, year, month, day, second>> of the
\* first match in the regular expression's order, None when there is none.
RECURSIVE MatchFrom(_, _, _, _, _)
RECURSIVE FirstMatch(_, _, _, _, _, _, _)
MatchFrom(s, i, fmt, k, acc) ==
    IF k > Len(fmt) THEN <<i>> \o acc
    ELSE FirstMatch(s, i, fmt, k, acc, Cands(fmt[k], s, i), 1)

\* The match with the first of the candidates cs[j..] that the rest of the
\* format can follow.
FirstMatch(s, i, fmt, k, acc, cs, j) ==
    IF j > Len(cs) THEN None
    ELSE LET r == MatchFrom(s, i + cs[j].len, fmt, k + 1,
                            SetField(acc, fmt[k].dir, cs[j].val))
         IN IF r # None THEN r ELSE FirstMatch(s, i, fmt, k, acc, cs, j + 1)

\* datetime.strptime(s, fmt).date(), None where it raises ValueError: no
\* match, unconverted data after the match, no such calendar date, or a
\* second of 60 or 61 (which the pattern of %S lets through).
StrpDate(s, fmt) ==
    LET r == MatchFrom(s, 1, fmt, 1, <<0, 0, 0, 0>>)
    IN IF r = None \/ r[1] # Len(s) + 1 THEN None
       ELSE IF ValidDate(r[2], r[3], r[4]) /\ r[5] <= 59 THEN <<r[2], r[3], r[4]>>
       ELSE None

TimeTokens == <<Lit(32), Dir("H"), Lit(58), Dir("M"), Lit(58), Dir("S")>>

\* The formats _parse_date tries, in its order.
formats ==
    << <<Dir("Y"), Lit(45), Dir("m"), Lit(45), Dir("d")>>,
       <<Dir("Y"), Lit(47), Dir("m"), Lit(47), Dir("d")>>,
       <<Dir("d"), Lit(46), Dir("m"), Lit(46), Dir("Y")>>,
       <<Dir("d"), Lit(47), Dir("m"), Lit(47), Dir("Y")>>,
       <<Dir("Y"), Lit(45), Dir("m"), Lit(45), Dir("d")>> \o TimeTokens,
       <<Dir("Y"), Lit(47), Dir("m"), Lit(47), Dir("d")>> \o TimeTokens >>

\* The date of the first of formats[f..] that parses s, None when none does.
RECURSIVE FirstFormat(_, _)
FirstFormat(s, f) ==
    IF f > Len(formats) THEN None
    ELSE LET d == StrpDate(s, formats[f])
         IN IF d # None THEN d ELSE FirstFormat(s, f + 1)

\* _parse_date of a text: the date of the first format that parses it, None
\* for an empty or blank text and for a text no format parses.
parse_date(date_str) ==
    IF date_str = << >> \/ Strip(date_str) = << >> THEN None
    ELSE FirstFormat(Strip(date_str), 1)

(***************************************************************************)
(* Values of the legacy columns.  mysql.connector hands a column value to  *)
(* the program as None, a str, a number, a date or a datetime; t is the    *)
(* Python type, s the text of a str, d the calendar date of a date or      *)
(* datetime (its time of day is never read), n the number.                 *)
(***************************************************************************)
Null == [t |-> "null", s |-> << >>, d |-> << >>, n |-> 0]

Text(s) == [t |-> "str", s |-> s, d |-> << >>, n |-> 0]

IntVal(n) == [t |-> "int", s |-> << >>, d |-> << >>, n |-> n]

DateObj(d) == [t |-> "date", s |-> << >>, d |-> d, n |-> 0]

DateTimeObj(d) == [t |-> "datetime", s |-> << >>, d |-> d, n |-> 0]

\* Python's truth value of a column value.
Truthy(v) ==
    CASE v.t = "null" -> FALSE
      [] v.t = "str" -> v.s # << >>
      [] v.t = "int" -> v.n # 0
      [] OTHER -> TRUE

\* str(value) of a value that is neither None nor a datetime.
StrOf(v) ==
    CASE v.t = "str" -> v.s
      [] v.t = "int" -> StrOfInt(v.n)
      [] OTHER -> IsoFormat(v.d)

(***************************************************************************)
(* The static configuration.                                               *)
(***************************************************************************)
\* The keys of COMPANY_MAPPING in their order of iteration.
Companies == <<"kls", "ks">>

COMPANY_MAPPING(company_prefix) ==
    CASE company_prefix = "kls" -> "KLS"
      [] company_prefix = "ks" -> "KarlStorz"

HIDDEN_COMPANIES == {"Europapark", "KarlsStorz", "Schwer"}

\* Whether FIELD_MAPPINGS of the company maps the column DateAdded to the
\* field date_added, the one mapped field whose value the program reads.
MapsDateAdded(company_prefix) == company_prefix \in {"kls", "ks"}

\* date.today()
Today == <<2024, 6, 1>>

(***************************************************************************)
(* The bounds of the model and the column values it draws from.            *)
(***************************************************************************)
\* The listings of a company have the identifiers 1..MaxListings.
MaxListings == 2

\* The two queries of all companies together return at most MaxRows rows.
MaxRows == 3

ListingIds == 1..MaxListings

T_2023_01_15 == <<50, 48, 50, 51, 45, 48, 49, 45, 49, 53>>   \* "2023-01-15"

T_01_02_2023 == <<48, 49, 46, 48, 50, 46, 50, 48, 50, 51>>   \* "01.02.2023"

T_05_03_2023 == <<48, 53, 46, 48, 51, 46, 50, 48, 50, 51>>   \* "05.03.2023"

T_n_a == <<110, 47, 97>>                                      \* "n/a"

ScrapeDateValues ==
    {Text(T_2023_01_15), Text(T_01_02_2023), Text(T_n_a), Null,
     DateObj(<<2023, 1, 15>>)}

DateAddedValues ==
    {Null, Text(T_05_03_2023), Text(T_n_a), IntVal(7),
     DateTimeObj(<<2023, 3, 5>>)}

(***************************************************************************)
(* The legacy database as the two queries of migrate_company see it.  A    *)
(* row is the listing's id and its DateAdded column (the other columns of  *)
(* j.* are copied into the payload and never read) and, in the join, the   *)
(* ScrapeDate of the dates row.  fetchall() has the whole result; the      *)
(* model fixes each row when the loop reaches it, as any row the query     *)
(* allows after the rows before it.                                        *)
(***************************************************************************)
Rows == [id : ListingIds, DateAdded : DateAddedValues, ScrapeDate : ScrapeDateValues]

\* No row: before the first row of a result.
NoRow == [id |-> 0, DateAdded |-> Null, ScrapeDate |-> Null]

\* The order of ORDER BY on the ScrapeDate column: NULL first, then by the
\* column's text.
ColumnLeq(a, b) ==
    IF a.t = "null" THEN TRUE
    ELSE IF b.t = "null" THEN FALSE
    ELSE TextLeq(StrOf(a), StrOf(b))

\* ColumnLeq over the ScrapeDate values of the model, computed once.
ColumnOrder == {p \in ScrapeDateValues \X ScrapeDateValues : ColumnLeq(p[1], p[2])}

\* ORDER BY j.id, d.ScrapeDate
RowLeq(a, b) ==
    \/ a.id < b.id
    \/ a.id = b.id /\ <<a.ScrapeDate, b.ScrapeDate>> \in ColumnOrder

\* A faulty variant of FollowsInOrder, a join without ORDER BY: the ordering
\* property of C6 must fail with it.
AnyOrder(prev, r) == TRUE

\* Whether row r can follow row prev in the result of the join.
FollowsInOrder(prev, r) == prev = NoRow \/ RowLeq(prev, r)

\* The rows that can come next in the result of the join (dates INNER JOIN
\* listings): in the order of ORDER BY, and with the columns of the same
\* listing for the same id.
JoinRows(prev) ==
    {r \in Rows : /\ r.id = prev.id => r.DateAdded = prev.DateAdded
                  /\ FollowsInOrder(prev, r)}

\* The rows that can come next in the result of the second query (the
\* listings no dates row refers to, in no stated order): a listing that was
\* in neither result so far.
DatelessRows(with_dates, without_dates) ==
    {r \in Rows : r.ScrapeDate = Null /\ r.id \notin (with_dates \cup without_dates)}

(***************************************************************************)
(* The methods of OldDataMigrator.                                         *)
(***************************************************************************)
\* The value a table (a set of pairs <<key, value>>) holds for a key.
Lookup(table, key) == (CHOOSE p \in table : p[1] = key)[2]

NoField == [has_date_added |-> FALSE, date_added |-> None]

Field(text) == [has_date_added |-> TRUE, date_added |-> text]

\* map_job_fields, for the field date_added: what it makes of the value of
\* the column DateAdded.
MapDateAdded(company_prefix, value) ==
    IF ~MapsDateAdded(company_prefix) \/ value.t = "null" THEN NoField
    ELSE IF value.t = "str"
         THEN LET parsed == parse_date(value.s)
              IN IF parsed # None THEN Field(IsoFormat(parsed)) ELSE NoField
    ELSE IF value.t = "datetime" THEN Field(IsoFormat(value.d))
    ELSE Field(StrOf(value))

\* MapDateAdded over the companies and the DateAdded values of the model,
\* computed once.
MappedFields ==
    {<<<<Companies[c], v>>, MapDateAdded(Companies[c], v)>> :
        c \in 1..Len(Companies), v \in DateAddedValues}

map_job_fields(company_prefix, old_row) ==
    Lookup(MappedFields, <<company_prefix, old_row.DateAdded>>)

\* A faulty variant of ScrapeDateOf, the fallback to today for a ScrapeDate
\* that is missing or does not parse: the skip of C3 must fail with it.
ScrapeDateOrToday(value) ==
    IF Truthy(value) /\ parse_date(value.s) # None THEN parse_date(value.s) ELSE Today

\* The scrape date migrate_company gets for the ScrapeDate of a joined row:
\* _parse_date of a value that is true, None otherwise.
ScrapeDateOf(value) == IF Truthy(value) THEN parse_date(value.s) ELSE None

\* ScrapeDateOf over the ScrapeDate values of the model, computed once.
ScrapeDates == {<<v, ScrapeDateOf(v)>> : v \in ScrapeDateValues}

joined_scrape_date(row) == Lookup(ScrapeDates, row.ScrapeDate)

\* _parse_date calls strip() on its argument: a true value that is no str
\* makes it raise AttributeError.
ParseRaises(row) == Truthy(row.ScrapeDate) /\ row.ScrapeDate.t # "str"

\* A faulty variant of SkipsRow, no row skipped: the invariant of C5 must
\* fail with it.
NeverSkips(scrape_date) == FALSE

\* "if not scrape_date: ... continue"
SkipsRow(scrape_date) == scrape_date = None

\* A faulty variant of DateAddedOrToday, date_added ignored: the property of
\* C2 must fail with it.
AlwaysToday(job_data) == Today

\* The scrape date of a listing without dates: its date_added, or today.
DateAddedOrToday(job_data) ==
    IF job_data.has_date_added /\ job_data.date_added # << >>
    THEN LET d == FromIsoFormat(job_data.date_added)
         IN IF d = None THEN Today ELSE d
    ELSE Today

\* DateAddedOrToday over the mapped fields of the model, computed once.
NoDateScrapeDates == {<<p[2], DateAddedOrToday(p[2])>> : p \in MappedFields}

no_date_scrape_date(job_data) == Lookup(NoDateScrapeDates, job_data)

\* The payload insert_job_via_api posts, and with it the id and the ScrapeDate
\* of the row it was made from and whether that row came from the join.
Payload(company_name, job_data, scrape_date, row, joined) ==
    [company_name |-> company_name,
     hidden |-> company_name \in HIDDEN_COMPANIES,
     scrape_date |-> IF scrape_date = None THEN None ELSE IsoFormat(scrape_date),
     date_added |-> job_data.date_added,
     id |-> row.id,
     row_date |-> row.ScrapeDate,
     joined |-> joined]

\* A faulty variant of CountOutcome, a failure counted as a migrated date:
\* the property of C4 must fail with it.
CountAsMigrated(success, dates, errs) == <<dates + 1, errs>>

\* "if success: dates_migrated += 1 else: errors += 1"
CountOutcome(success, dates, errs) ==
    IF success THEN <<dates + 1, errs>> ELSE <<dates, errs + 1>>

\* A faulty variant of MergeStats, the errors left out of the run's total:
\* the invariant of C10 must fail with it.
MergeWithoutErrors(st, company_name, jobs, dates, errs) ==
    [total_jobs |-> st.total_jobs + jobs,
     total_dates |-> st.total_dates + dates,
     errors |-> st.errors,
     by_company |->
        [c \in DOMAIN st.by_company \cup {company_name} |->
            IF c = company_name
            THEN [jobs |-> jobs, dates |-> dates, errors |-> errs]
            ELSE st.by_company[c]]]

\* The end of migrate_company: the company's numbers enter the statistics.
MergeStats(st, company_name, jobs, dates, errs) ==
    [total_jobs |-> st.total_jobs + jobs,
     total_dates |-> st.total_dates + dates,
     errors |-> st.errors + errs,
     by_company |->
        [c \in DOMAIN st.by_company \cup {company_name} |->
            IF c = company_name
            THEN [jobs |-> jobs, dates |-> dates, errors |-> errs]
            ELSE st.by_company[c]]]

\* A faulty variant of AfterFailure, the loop over the companies left at the
\* first exception: the invariant of C7 must fail with it.
StopAfterFailure(i) == Len(Companies) + 1

\* migrate_all catches the exception of a company and goes on with the next.
AfterFailure(i) == i + 1

\* A faulty variant of Close, the connection left open: the invariant of C8
\* must fail with it.
LeaveOpen(conn, n) == <<conn, n>>

\* connection.close() in the finally block: the connection and the number of
\* times it was closed.
Close(conn, n) == <<"closed", n + 1>>

\* A faulty variant of ExitStatus, every end of the process a failure: the
\* invariant of C9 must fail with it.
AlwaysFails(how) == 1

\* The exit status of the process: argparse ends it with 2 on a bad command
\* line, connect_db with 1, and the end of main with 0.
ExitStatus(how) ==
    CASE how = "usage" -> 2
      [] how = "connect" -> 1
      [] how = "end" -> 0

\* No payload: nothing posted yet.
NoPost ==
    [company_name |-> "", hidden |-> FALSE, scrape_date |-> None, date_added |-> None,
     id |-> 0, row_date |-> Null, joined |-> FALSE]

(***************************************************************************)
(* The state of a run.                                                     *)
(***************************************************************************)
VARIABLES
    pc,                 \* where the run is: main, connect, companies, joined,
                        \* nodates, done
    exit_status,        \* the exit status of the process, -1 while it runs
    connection,         \* none, open, closed, or failed (connect_db gave up)
    closes,             \* how many times connection.close() was called
    summary_printed,    \* print_summary has run
    stats,              \* self.stats
    idx,                \* the position of migrate_all in Companies
    row,                \* migrate_company: the row the loop read last
    jobs_migrated,      \* migrate_company's counters
    dates_migrated,
    errors,
    processed_jobs,
    with_dates,         \* the listings the rows of the join read so far belong to
    without_dates,      \* the listings the second loop has read
    events,             \* the rows of the join read so far for the listing row.id
    posts_of,           \* how many of them were posted
    last_post,          \* the payload this call of migrate_company posted last
    last_response,      \* the answer to the last post: none, ok, error
    rows_read,          \* the rows the run has read from the database
    api_calls,          \* the posts made in the whole run
    lost_calls,         \* the posts made by calls of migrate_company that raised
    attempted,          \* the companies migrate_company was called for
    aborted,            \* the companies whose migrate_company raised
    late_query          \* a query was run on a connection that was not open

locals ==
    <<row, jobs_migrated, dates_migrated, errors, processed_jobs, with_dates,
      without_dates, events, posts_of, last_post, last_response>>

run ==
    <<exit_status, connection, closes, summary_printed, stats,
      lost_calls, attempted, aborted, late_query>>

vars == <<pc, idx, rows_read, api_calls, locals, run>>

\* The locals of migrate_company before its loops, and after it has returned
\* or raised.
FreshLocals ==
    /\ row' = NoRow
    /\ jobs_migrated' = 0
    /\ dates_migrated' = 0
    /\ errors' = 0
    /\ processed_jobs' = {}
    /\ with_dates' = {}
    /\ without_dates' = {}
    /\ events' = 0
    /\ posts_of' = 0
    /\ last_post' = NoPost
    /\ last_response' = "none"

\* __init__ has run and main is about to parse the command line.
Init ==
    /\ pc = "main"
    /\ exit_status = -1
    /\ connection = "none"
    /\ closes = 0
    /\ summary_printed = FALSE
    /\ stats = [total_jobs |-> 0, total_dates |-> 0, errors |-> 0,
                by_company |-> [c \in {} |-> 0]]
    /\ idx = 1
    /\ row = NoRow
    /\ jobs_migrated = 0
    /\ dates_migrated = 0
    /\ errors = 0
    /\ processed_jobs = {}
    /\ with_dates = {}
    /\ without_dates = {}
    /\ events = 0
    /\ posts_of = 0
    /\ last_post = NoPost
    /\ last_response = "none"
    /\ rows_read = 0
    /\ api_calls = 0
    /\ lost_calls = 0
    /\ attempted = << >>
    /\ aborted = {}
    /\ late_query = FALSE

(***************************************************************************)
(* main and connect_db.                                                    *)
(***************************************************************************)
\* parse_args accepts the command line and main calls migrate_all.
ParseArgsOk ==
    /\ pc = "main"
    /\ pc' = "connect"
    /\ UNCHANGED <<idx, rows_read, api_calls, locals, run>>

\* parse_args rejects the command line (a required argument is missing):
\* argparse prints the usage and ends the process.
ParseArgsError ==
    /\ pc = "main"
    /\ pc' = "done"
    /\ exit_status' = ExitStatus("usage")
    /\ UNCHANGED <<connection, closes, summary_printed, stats,
                   lost_calls, attempted, aborted, late_query>>
    /\ UNCHANGED <<idx, rows_read, api_calls, locals>>

ConnectOk ==
    /\ pc = "connect"
    /\ connection' = "open"
    /\ pc' = "companies"
    /\ UNCHANGED <<exit_status, closes, summary_printed, stats,
                   lost_calls, attempted, aborted, late_query>>
    /\ UNCHANGED <<idx, rows_read, api_calls, locals>>

\* mysql.connector.connect raises: connect_db calls sys.exit(1).
ConnectError ==
    /\ pc = "connect"
    /\ connection' = "failed"
    /\ pc' = "done"
    /\ exit_status' = ExitStatus("connect")
    /\ UNCHANGED <<closes, summary_printed, stats,
                   lost_calls, attempted, aborted, late_query>>
    /\ UNCHANGED <<idx, rows_read, api_calls, locals>>

(***************************************************************************)
(* migrate_company, called by migrate_all for Companies[idx].              *)
(***************************************************************************)
\* An exception leaves migrate_company: migrate_all's handler prints it and
\* the loop over the companies goes on.
Abort ==
    /\ pc' = "companies"
    /\ idx' = AfterFailure(idx)
    /\ aborted' = aborted \cup {Companies[idx]}
    /\ lost_calls' = lost_calls + dates_migrated + errors
    /\ FreshLocals
    /\ UNCHANGED <<exit_status, connection, closes, summary_printed, stats>>

\* migrate_all calls migrate_company and its two queries succeed.
StartCompany ==
    /\ pc = "companies"
    /\ idx <= Len(Companies)
    /\ pc' = "joined"
    /\ FreshLocals
    /\ attempted' = Append(attempted, Companies[idx])
    /\ late_query' = (late_query \/ connection # "open")
    /\ UNCHANGED <<exit_status, connection, closes, summary_printed, stats,
                   lost_calls, aborted>>
    /\ UNCHANGED <<idx, rows_read, api_calls>>

\* migrate_all calls migrate_company and a query raises (the company's tables
\* are missing, the server has gone).
QueryError ==
    /\ pc = "companies"
    /\ idx <= Len(Companies)
    /\ attempted' = Append(attempted, Companies[idx])
    /\ late_query' = (late_query \/ connection # "open")
    /\ Abort
    /\ UNCHANGED <<rows_read, api_calls>>

\* The loop over all_rows reads the row r.
ReadJoined(r) ==
    /\ pc = "joined"
    /\ rows_read < MaxRows
    /\ r \in JoinRows(row)
    /\ row' = r
    /\ rows_read' = rows_read + 1
    /\ with_dates' = with_dates \cup {r.id}
    /\ events' = IF r.id = row.id THEN events + 1 ELSE 1

\* The post of one row and the counting of its outcome.
Submit(r, job_data, scrape_date, joined, success) ==
    LET counts == CountOutcome(success, dates_migrated, errors)
    IN /\ last_post' = Payload(COMPANY_MAPPING(Companies[idx]), job_data,
                               scrape_date, r, joined)
       /\ last_response' = IF success THEN "ok" ELSE "error"
       /\ api_calls' = api_calls + 1
       /\ dates_migrated' = counts[1]
       /\ errors' = counts[2]

\* A joined row whose ScrapeDate is missing or does not parse: the warning,
\* and on to the next row.
JoinedSkip ==
    \E r \in Rows :
        /\ ReadJoined(r)
        /\ ~ParseRaises(r)
        /\ SkipsRow(joined_scrape_date(r))
        /\ posts_of' = IF r.id = row.id THEN posts_of ELSE 0
        /\ UNCHANGED <<jobs_migrated, dates_migrated, errors, processed_jobs,
                       without_dates, last_post, last_response>>
        /\ UNCHANGED <<pc, idx, api_calls, run>>

\* A joined row whose ScrapeDate is true and no text: _parse_date raises.
JoinedRaise ==
    \E r \in Rows :
        /\ pc = "joined"
        /\ rows_read < MaxRows
        /\ r \in JoinRows(row)
        /\ ParseRaises(r)
        /\ rows_read' = rows_read + 1
        /\ Abort
        /\ UNCHANGED <<api_calls, attempted, late_query>>

\* A joined row with a scrape date: it is posted, and its listing is counted
\* the first time.
JoinedSubmit ==
    \E r \in Rows, success \in BOOLEAN :
        /\ ReadJoined(r)
        /\ ~ParseRaises(r)
        /\ ~SkipsRow(joined_scrape_date(r))
        /\ Submit(r, map_job_fields(Companies[idx], r), joined_scrape_date(r),
                  TRUE, success)
        /\ posts_of' = IF r.id = row.id THEN posts_of + 1 ELSE 1
        /\ IF r.id \notin processed_jobs
           THEN /\ jobs_migrated' = jobs_migrated + 1
                /\ processed_jobs' = processed_jobs \cup {r.id}
           ELSE UNCHANGED <<jobs_migrated, processed_jobs>>
        /\ UNCHANGED without_dates
        /\ UNCHANGED <<pc, idx, run>>

\* all_rows is exhausted: on to the listings without dates.
JoinedEnd ==
    /\ pc = "joined"
    /\ pc' = "nodates"
    /\ row' = NoRow
    /\ events' = 0
    /\ posts_of' = 0
    /\ UNCHANGED <<jobs_migrated, dates_migrated, errors, processed_jobs,
                   with_dates, without_dates, last_post, last_response>>
    /\ UNCHANGED <<idx, rows_read, api_calls, run>>

\* A listing without dates: it is posted with its date_added or today.
NoDateSubmit ==
    \E r \in Rows, success \in BOOLEAN :
        /\ pc = "nodates"
        /\ rows_read < MaxRows
        /\ r \in DatelessRows(with_dates, without_dates)
        /\ row' = r
        /\ rows_read' = rows_read + 1
        /\ without_dates' = without_dates \cup {r.id}
        /\ LET job_data == map_job_fields(Companies[idx], r)
           IN Submit(r, job_data, no_date_scrape_date(job_data), FALSE, success)
        /\ jobs_migrated' = jobs_migrated + 1
        /\ UNCHANGED <<processed_jobs, with_dates, events, posts_of>>
        /\ UNCHANGED <<pc, idx, run>>

\* jobs_without_dates is exhausted: the company's numbers are printed and
\* merged, and migrate_all goes on to the next company.
FinishCompany ==
    /\ pc = "nodates"
    /\ stats' = MergeStats(stats, COMPANY_MAPPING(Companies[idx]),
                           jobs_migrated, dates_migrated, errors)
    /\ idx' = idx + 1
    /\ pc' = "companies"
    /\ FreshLocals
    /\ UNCHANGED <<exit_status, connection, closes, summary_printed,
                   lost_calls, attempted, aborted, late_query>>
    /\ UNCHANGED <<rows_read, api_calls>>

(***************************************************************************)
(* The end of migrate_all and of main.                                     *)
(***************************************************************************)
\* The loop over the companies is over: the finally block closes the
\* connection, the summary is printed and main returns.
EndRun ==
    /\ pc = "companies"
    /\ idx > Len(Companies)
    /\ connection' = Close(connection, closes)[1]
    /\ closes' = Close(connection, closes)[2]
    /\ summary_printed' = TRUE
    /\ exit_status' = ExitStatus("end")
    /\ pc' = "done"
    /\ UNCHANGED <<stats, lost_calls, attempted, aborted, late_query>>
    /\ UNCHANGED <<idx, rows_read, api_calls, locals>>

Next ==
    \/ ParseArgsOk
    \/ ParseArgsError
    \/ ConnectOk
    \/ ConnectError
    \/ StartCompany
    \/ QueryError
    \/ JoinedSkip
    \/ JoinedRaise
    \/ JoinedSubmit
    \/ JoinedEnd
    \/ NoDateSubmit
    \/ FinishCompany
    \/ EndRun

Spec == Init /\ [][Next]_vars

(***************************************************************************)
(* The properties.  The steps they speak of are told apart by what they    *)
(* change: a step that reads a row of a result adds one to rows_read and   *)
(* leaves a row with a listing's id in row; a step that posts adds one to  *)
(* api_calls.                                                              *)
(***************************************************************************)
\* The step reads a row of the join and migrate_company stays in its loop.
ReadsJoinedRow ==
    pc = "joined" /\ rows_read' = rows_read + 1 /\ row'.id # 0

\* The step reads a row of the second query.
ReadsDatelessRow ==
    pc = "nodates" /\ rows_read' = rows_read + 1 /\ row'.id # 0

\* The step is the one after the last joined row of the listing row.id: the
\* next row belongs to another listing, or all_rows is exhausted.
EndsListing ==
    /\ pc = "joined"
    /\ row.id # 0
    /\ \/ pc' = "nodates"
       \/ ReadsJoinedRow /\ row'.id # row.id

\* A ScrapeDate that is missing or does not parse.
MissingOrUnparseable(value) ==
    \/ ~Truthy(value)
    \/ value.t = "str" /\ parse_date(value.s) = None

\* The sum of f over the set S.
RECURSIVE SumOver(_, _)
SumOver(f, S) ==
    IF S = {} THEN 0
    ELSE LET c == CHOOSE c \in S : TRUE IN f[c] + SumOver(f, S \ {c})

\* C1: for every listing with N >= 1 date-events, migrate_company posts
\* exactly N times for the listing and the listing adds exactly 1 to
\* jobs_migrated, whatever the values of its date-events: when the rows of a
\* listing are over, as many were posted as were read, and the listing is
\* among the counted ones, which jobs_migrated counts.
C1_EveryEventSubmitted ==
    [][EndsListing =>
        /\ posts_of = events
        /\ row.id \in processed_jobs
        /\ jobs_migrated = Cardinality(processed_jobs)]_vars

\* C2: a listing without date-events is read once and posted once, with the
\* mapped date_added as scrape_date when it is there and fromisoformat reads
\* it, and with today otherwise; it adds exactly 1 to jobs_migrated.
C2_DatelessSubmittedOnce ==
    [][ReadsDatelessRow =>
        LET job_data == map_job_fields(Companies[idx], row')
            usable == /\ job_data.has_date_added
                      /\ FromIsoFormat(job_data.date_added) # None
        IN /\ row'.id \notin with_dates \cup without_dates
           /\ api_calls' = api_calls + 1
           /\ jobs_migrated' = jobs_migrated + 1
           /\ pc' = "nodates"
           /\ last_post'.id = row'.id
           /\ ~last_post'.joined
           /\ last_post'.scrape_date =
                IF usable THEN job_data.date_added ELSE IsoFormat(Today)]_vars

\* A listing without date-events was posted with its date_added, which is
\* not today.
C2_Witness ==
    /\ pc = "nodates"
    /\ last_post.id # 0
    /\ ~last_post.joined
    /\ last_post.scrape_date = IsoFormat(<<2023, 3, 5>>)
    /\ last_post.date_added = last_post.scrape_date
    /\ jobs_migrated = 1

C4_FailureCountedOnce ==
    [][api_calls' = api_calls + 1 =>
        /\ pc' = pc
        /\ idx' = idx
        /\ aborted' = aborted
        /\ last_response' \in {"ok", "error"}
        /\ last_response' = "error" =>
              errors' = errors + 1 /\ dates_migrated' = dates_migrated
        /\ last_response' = "ok" =>
              dates_migrated' = dates_migrated + 1 /\ errors' = errors]_vars

\* A post failed and a later post of the same company succeeded.
C4_Witness ==
    /\ pc \in {"joined", "nodates"}
    /\ errors = 1
    /\ dates_migrated = 1
    /\ last_response = "ok"

EventDate(post) == FromIsoFormat(post.scrape_date)

\* C6 as stated: all the posts of a company, of rows with and without
\* date-events, come in the order of the listing id and then the event date.
C6_AllInDateOrder ==
    [][(api_calls' = api_calls + 1 /\ last_post # NoPost) =>
        \/ last_post.id < last_post'.id
        \/ /\ last_post.id = last_post'.id
           /\ DateLeq(EventDate(last_post), EventDate(last_post'))]_vars

\* C6 amended: the posts of the joined rows come in the order of the listing
\* id and then of the stored ScrapeDate column, and the posts of the listings
\* without date-events come after all of them.
C6_JoinedInColumnOrder ==
    [][(api_calls' = api_calls + 1 /\ last_post # NoPost) =>
        /\ last_post'.joined =>
              /\ last_post.joined
              /\ \/ last_post.id < last_post'.id
                 \/ /\ last_post.id = last_post'.id
                    /\ ColumnLeq(last_post.row_date, last_post'.row_date)
        /\ ~last_post.joined => ~last_post'.joined]_vars

\* Listing 1, without date-events, was posted after listing 2, with one.
C6_Witness ==
    /\ pc = "nodates"
    /\ ~last_post.joined
    /\ last_post.id = 1
    /\ processed_jobs = {2}

\* C7: the companies are attempted in their order, an exception of one
\* leaves the loop at the next one, and the run ends, with the summary, only
\* when every company has been attempted.
C7_LaterSourcesAttempted ==
    /\ Len(attempted) <= Len(Companies)
    /\ \A i \in 1..Len(attempted) : attempted[i] = Companies[i]
    /\ aborted \subseteq {attempted[i] : i \in 1..Len(attempted)}
    /\ pc = "companies" => Len(attempted) = idx - 1
    /\ pc \in {"joined", "nodates"} => Len(attempted) = idx
    /\ summary_printed => pc = "done" /\ attempted = Companies
    /\ (pc = "done" /\ connection = "closed") => summary_printed

\* The first company raised, the second one was migrated, and the summary
\* was printed.
C7_Witness ==
    /\ pc = "done"
    /\ summary_printed
    /\ aborted = {Companies[1]}
    /\ attempted = Companies
    /\ COMPANY_MAPPING(Companies[2]) \in DOMAIN stats.by_company

\* C8: the connection migrate_all has obtained is open as long as companies
\* are migrated, no query runs on a connection that is not open, and when
\* the run has ended the connection is closed and was closed once.
C8_ConnectionClosedOnce ==
    /\ closes <= 1
    /\ ~late_query
    /\ pc \in {"companies", "joined", "nodates"} => connection = "open" /\ closes = 0
    /\ (pc = "done" /\ connection \notin {"none", "failed"}) =>
          connection = "closed" /\ closes = 1

\* The run has ended after a company raised, and the connection is closed.
C8_Witness ==
    /\ pc = "done"
    /\ aborted # {}
    /\ connection = "closed"
    /\ closes = 1

\* C9 as stated: the exit status is not zero only if the connection failed.
C9_NonZeroOnlyOnConnect ==
    (pc = "done" /\ exit_status # 0) => connection = "failed"

\* C9 amended: the exit status is not zero only if the command line was
\* rejected (2) or the connection failed (1), and then no company was
\* attempted, nothing posted and no summary printed; after the connection
\* the run ends with the summary and the exit status 0.
C9_NonZeroBeforeMigration ==
    /\ pc # "done" => exit_status = -1
    /\ pc = "done" => exit_status \in {0, 1, 2}
    /\ (pc = "done" /\ exit_status # 0) =>
          /\ attempted = << >>
          /\ api_calls = 0
          /\ ~summary_printed
          /\ exit_status = 2 <=> connection = "none"
          /\ exit_status = 1 <=> connection = "failed"
    /\ (pc = "done" /\ connection \notin {"none", "failed"}) =>
          exit_status = 0 /\ summary_printed

\* The command line was rejected: the process has ended with the status 2
\* and no connection was asked for.
C9_Witness ==
    /\ pc = "done"
    /\ exit_status = 2
    /\ connection = "none"

\* C10: after every step, each total of the statistics is the sum of the
\* numbers by_company holds, no company that raised is in by_company, and
\* the posts are those the totals count, those of the call under way and
\* those of the calls that raised; a call that raises leaves the statistics
\* as they were.
C10_TotalsAreSums ==
    [][/\ LET by == stats'.by_company
              names == DOMAIN by
          IN /\ stats'.total_jobs = SumOver([c \in names |-> by[c].jobs], names)
             /\ stats'.total_dates = SumOver([c \in names |-> by[c].dates], names)
             /\ stats'.errors = SumOver([c \in names |-> by[c].errors], names)
             /\ names \cap {COMPANY_MAPPING(c) : c \in aborted'} = {}
       /\ api_calls' = stats'.total_dates + stats'.errors + lost_calls'
                         + dates_migrated' + errors'
       /\ aborted' # aborted =>
             /\ stats' = stats
             /\ lost_calls' = lost_calls + dates_migrated + errors]_vars

\* The first company raised after a post that failed, the second one was
\* migrated with one post, and the summary was printed.
C10_Witness ==
    /\ pc = "done"
    /\ aborted = {Companies[1]}
    /\ lost_calls = 1
    /\ api_calls = 2
    /\ DOMAIN stats.by_company = {COMPANY_MAPPING(Companies[2])}
    /\ stats.total_dates + stats.errors = 1

====
